---- MODULE Spec2Model ----
(***************************************************************************)
(* Model of src/util/source-handler/partition.ts: the four region matchers *)
(* (matchMacro, matchLiteral, matchLineComment, matchBlockComment), the    *)
(* scan loop of partition, the three extraction passes and the assembly of *)
(* the SourceItem.                                                         *)
(*                                                                         *)
(* A text is a sequence of one-character strings.  Offsets are the         *)
(* 0-based offsets of the source: charAt(s, k) is s[k + 1].                *)
(***************************************************************************)
EXTENDS Integers, Sequences, FiniteSets, TLC

VARIABLES content, pc, i, lastIndex, macros, sources, comments, literals,
          dependencies, namespaces, typedefs, result

vars == <<content, pc, i, lastIndex, macros, sources, comments, literals,
          dependencies, namespaces, typedefs, result>>

----------------------------------------------------------------------------
(* Bounds of the inputs.                                                   *)

\* longest scanner input, counted in fragments of ScanFragments
MaxFrags == 4

\* longest extraction input, counted in fragments of ExtractFragments
MaxParts == 3

\* longest macro input, counted in fragments of MacroFragments
MaxMacroFrags == 5

----------------------------------------------------------------------------
(* Strings.                                                                *)

Min(a, b) == IF a < b THEN a ELSE b

charAt(s, k) == IF k >= 0 /\ k < Len(s) THEN s[k + 1] ELSE ""

\* String.prototype.slice(a, b) for 0 <= a: empty when a >= b
slice(s, a, b) == IF a >= Min(b, Len(s)) THEN << >> ELSE SubSeq(s, a + 1, Min(b, Len(s)))

\* String.prototype.startsWith(tok, pos)
startsWith(s, tok, pos) ==
  /\ pos + Len(tok) <= Len(s)
  /\ \A k \in 1..Len(tok) : s[pos + k] = tok[k]

\* /^[\t ]$/
IsBlank(c) == c \in {"\t", " "}

\* /^[\n]$/
IsNewline(c) == c = "\n"

\* /^\s$/
IsSpace(c) == c \in {" ", "\t", "\n", "\r", "\f"}

Letters ==
  {"a", "b", "c", "d", "e", "f", "g", "h", "i", "j", "k", "l", "m",
   "n", "o", "p", "q", "r", "s", "t", "u", "v", "w", "x", "y", "z",
   "A", "B", "C", "D", "E", "F", "G", "H", "I", "J", "K", "L", "M",
   "N", "O", "P", "Q", "R", "S", "T", "U", "V", "W", "X", "Y", "Z"}

Digits == {"0", "1", "2", "3", "4", "5", "6", "7", "8", "9"}

\* \w
IsWord(c) == c \in Letters \cup Digits \cup {"_"}

\* [\w\-_.:\/\\]
IsPathChar(c) == IsWord(c) \/ c \in {"-", "_", ".", ":", "/", "\\"}

\* [\w* <>]
IsTypeChar(c) == IsWord(c) \/ c \in {"*", " ", "<", ">"}

----------------------------------------------------------------------------
(* The language descriptor (languageConfig of @/config/immutable).         *)

macroMark == <<"#">>

quoteMark == {<<"\"">>, <<"'">>}

inlineCommentMark == <<"/", "/">>

blockCommentMark == << <<"/", "*">>, <<"*", "/">> >>

----------------------------------------------------------------------------
(* Region matchers.                                                        *)

RECURSIVE BackOverBlank(_, _)
\* while (start > 0 && /^[\t ]$/.test(content.charAt(start-1))) --start
BackOverBlank(s, start) ==
  IF start > 0 /\ IsBlank(charAt(s, start - 1))
  THEN BackOverBlank(s, start - 1)
  ELSE start

RECURSIVE SkipSpace(_, _)
\* for (...; end < content.length && /^\s$/.test(content.charAt(end));) ++end
SkipSpace(s, end) ==
  IF end < Len(s) /\ IsSpace(charAt(s, end)) THEN SkipSpace(s, end + 1) ELSE end

RECURSIVE SkipBlank(_, _)
\* while (end < content.length && /^[\t ]$/.test(content.charAt(end))) ++end
SkipBlank(s, end) ==
  IF end < Len(s) /\ IsBlank(charAt(s, end)) THEN SkipBlank(s, end + 1) ELSE end

RECURSIVE SkipNewline(_, _)
\* while (end < content.length && /^[\n]$/.test(content.charAt(end))) ++end
SkipNewline(s, end) ==
  IF end < Len(s) /\ IsNewline(charAt(s, end)) THEN SkipNewline(s, end + 1) ELSE end

\* the body of matchMacro's loop on a backslash at `end`, up to the loop's ++end:
\* ++end; skip whitespace; --end; then the for's own ++end
MacroAfterBackslash(s, end) == (SkipSpace(s, end + 1) - 1) + 1

\* one iteration of matchMacro's loop on a letter that does not break it: the
\* value of `end` at the next test of the loop condition
MacroIterate(s, end) ==
  IF charAt(s, end) = "\\" THEN MacroAfterBackslash(s, end) ELSE end + 1

RECURSIVE MacroLoop(_, _)
\* the for loop of matchMacro: the value of `end` when the loop is left
MacroLoop(s, end) ==
  IF end >= Len(s) THEN end
  ELSE IF charAt(s, end) = "\n" THEN end
  ELSE MacroLoop(s, MacroIterate(s, end))

matchMacro(s, at) ==
  LET start == BackOverBlank(s, at)
      end   == MacroLoop(s, start + 1)
  IN  [start |-> start, content |-> slice(s, start, end + 1)]

\* a loop that forgets the ++end after a backslash
LiteralIterateNoSkip(s, end) == end + 1

\* one iteration of matchLiteral's loop on a letter that does not break it
LiteralIterate(s, end) ==
  IF charAt(s, end) = "\\" THEN (end + 1) + 1 ELSE end + 1

RECURSIVE LiteralLoop(_, _, _)
\* the for loop of matchLiteral: the value of `end` when the loop is left
LiteralLoop(s, end, quote) ==
  IF end >= Len(s) THEN end
  ELSE IF charAt(s, end) = quote THEN end
  ELSE LiteralLoop(s, LiteralIterate(s, end), quote)

LiteralEnd(s, at) == LiteralLoop(s, at + 1, charAt(s, at))

\* if (end >= content.length) { logger.fatal(...); process.exit(-1) }
LiteralUnclosed(s, at) == LiteralEnd(s, at) >= Len(s)

matchLiteral(s, at) ==
  [start |-> at, content |-> slice(s, at, LiteralEnd(s, at) + 1)]

RECURSIVE LineCommentLoop(_, _)
\* while (end < content.length && content.charAt(end) !== '\n') ++end
LineCommentLoop(s, end) ==
  IF end < Len(s) /\ charAt(s, end) # "\n" THEN LineCommentLoop(s, end + 1) ELSE end

matchLineComment(s, at, lcSymbol) ==
  [start |-> at, content |-> slice(s, at, LineCommentLoop(s, at + Len(lcSymbol)))]

RECURSIVE BlockCommentLoop(_, _, _)
\* while (end < content.length && !content.startsWith(bcSymbol[1], end)) ++end
BlockCommentLoop(s, end, close) ==
  IF end < Len(s) /\ ~startsWith(s, close, end)
  THEN BlockCommentLoop(s, end + 1, close)
  ELSE end

\* where the search for the closing token begins: let end = start + bcSymbol[0].length,
\* with start already moved back over the blanks
BlockCommentSearchFrom(s, at, bcSymbol) == BackOverBlank(s, at) + Len(bcSymbol[1])

\* the offset at which the search for the closing token stops
BlockCommentClose(s, at, bcSymbol) ==
  BlockCommentLoop(s, BlockCommentSearchFrom(s, at, bcSymbol), bcSymbol[2])

\* if (end >= content.length) { logger.fatal(...); process.exit(-1) }
BlockCommentUnclosed(s, at, bcSymbol) == BlockCommentClose(s, at, bcSymbol) >= Len(s)

matchBlockComment(s, at, bcSymbol) ==
  LET start == BackOverBlank(s, at)
      close == BlockCommentClose(s, at, bcSymbol)
      end   == SkipNewline(s, SkipBlank(s, close + Len(bcSymbol[2])))
  IN  [start |-> start, content |-> slice(s, start, end)]

----------------------------------------------------------------------------
(* The extraction patterns.  A match is [end |-> offset after the match,   *)
(* caps |-> the captured groups]; NoMatch when the pattern does not match  *)
(* at the offset.                                                          *)

NoMatch == [end |-> -1, caps |-> << >>]

\* the end of the longest run of characters of a class that starts at offset p
SpaceRun(s, p) == SkipSpace(s, p)

RECURSIVE WordRun(_, _)
WordRun(s, p) == IF p < Len(s) /\ IsWord(charAt(s, p)) THEN WordRun(s, p + 1) ELSE p

RECURSIVE PathRun(_, _)
PathRun(s, p) == IF p < Len(s) /\ IsPathChar(charAt(s, p)) THEN PathRun(s, p + 1) ELSE p

RECURSIVE LazySpaceToNewline(_, _)
\* \s*?\n : the lazy run stops at the first newline; -1 when a character that is
\* not whitespace comes first
LazySpaceToNewline(s, p) ==
  IF p >= Len(s) THEN -1
  ELSE IF charAt(s, p) = "\n" THEN p
  ELSE IF IsSpace(charAt(s, p)) THEN LazySpaceToNewline(s, p + 1)
  ELSE -1

kwInclude == <<"#", "i", "n", "c", "l", "u", "d", "e">>

kwUsing == <<"u", "s", "i", "n", "g">>

kwNamespace == <<"n", "a", "m", "e", "s", "p", "a", "c", "e">>

kwTypedef == <<"t", "y", "p", "e", "d", "e", "f">>

\* /#include\s*[<"]([\w\-_.:\/\\]+)[>"]\s*?\n/ matched at offset p
getImportRegex(s, p) ==
  IF ~startsWith(s, kwInclude, p) THEN NoMatch
  ELSE LET open  == SpaceRun(s, p + Len(kwInclude))
           close == PathRun(s, open + 1)
           nl    == LazySpaceToNewline(s, close + 1)
       IN  IF /\ charAt(s, open) \in {"<", "\""}
              /\ close > open + 1
              /\ charAt(s, close) \in {">", "\""}
              /\ nl # -1
           THEN [end |-> nl + 1, caps |-> <<slice(s, open + 1, close)>>]
           ELSE NoMatch

\* /using\s+namespace\s+(\w+)\s*;\s*/ matched at offset p
getNamespaceRegex(s, p) ==
  IF ~startsWith(s, kwUsing, p) THEN NoMatch
  ELSE LET a  == p + Len(kwUsing)
           b  == SpaceRun(s, a)
           c  == b + Len(kwNamespace)
           d  == SpaceRun(s, c)
           e  == WordRun(s, d)
           f  == SpaceRun(s, e)
       IN  IF /\ b > a
              /\ startsWith(s, kwNamespace, b)
              /\ d > c
              /\ e > d
              /\ charAt(s, f) = ";"
           THEN [end |-> SpaceRun(s, f + 1), caps |-> <<slice(s, d, e)>>]
           ELSE NoMatch

\* the ways /\s+([\w* <>]+)\s+(\w+)\s*;/ splits the text from offset a up to the
\* semicolon at offset f: <<b, c, d, e>> with \s+ = [a, b), the type = [b, c),
\* \s+ = [c, d), the alias = [d, e), \s* = [e, f)
TypedefSplits(s, a, f) ==
  LET heads == {b \in (a + 1)..f : \A k \in a..(b - 1) : IsSpace(charAt(s, k))}
      tails == {e \in (a + 1)..f : \A k \in e..(f - 1) : IsSpace(charAt(s, k))}
  IN  {q \in heads \X ((a + 1)..f) \X ((a + 1)..f) \X tails :
         /\ q[1] < q[2] /\ q[2] < q[3] /\ q[3] < q[4]
         /\ \A k \in q[1]..(q[2] - 1) : IsTypeChar(charAt(s, k))
         /\ \A k \in q[2]..(q[3] - 1) : IsSpace(charAt(s, k))
         /\ \A k \in q[3]..(q[4] - 1) : IsWord(charAt(s, k))}

\* the split the backtracking search finds first: every quantifier is greedy, so
\* the leftmost group is made as long as possible, then the next one
GreedyFirst(splits) ==
  CHOOSE q \in splits :
    \A r \in splits :
      \/ q[1] > r[1]
      \/ q[1] = r[1] /\ q[2] > r[2]
      \/ q[1] = r[1] /\ q[2] = r[2] /\ q[3] > r[3]
      \/ q[1] = r[1] /\ q[2] = r[2] /\ q[3] = r[3] /\ q[4] >= r[4]

RECURSIVE TypedefBodyEnd(_, _)
\* the first offset from p on whose character none of \s, [\w* <>], \w accepts
TypedefBodyEnd(s, p) ==
  IF p < Len(s) /\ (IsSpace(charAt(s, p)) \/ IsTypeChar(charAt(s, p)))
  THEN TypedefBodyEnd(s, p + 1)
  ELSE p

\* /typedef\s+([\w* <>]+)\s+(\w+)\s*;\s*/ matched at offset p
getTypedefRegex(s, p) ==
  IF ~startsWith(s, kwTypedef, p) THEN NoMatch
  ELSE LET a == p + Len(kwTypedef)
           f == TypedefBodyEnd(s, a)
       IN  IF charAt(s, f) # ";" THEN NoMatch
           ELSE LET splits == TypedefSplits(s, a, f)
                IN  IF splits = {} THEN NoMatch
                    ELSE LET q == GreedyFirst(splits)
                         IN  [end  |-> SpaceRun(s, f + 1),
                              caps |-> <<slice(s, q[1], q[2]), slice(s, q[3], q[4])>>]

MatchAt(regex, s, p) ==
  CASE regex = "import"    -> getImportRegex(s, p)
    [] regex = "namespace" -> getNamespaceRegex(s, p)
    [] regex = "typedef"   -> getTypedefRegex(s, p)

RECURSIVE Replace(_, _, _)
\* String.prototype.replace(regex with the g flag, () => '') from offset p on:
\* [text |-> what is left of s from p on, caps |-> the captures of the matches in
\* order].  The search resumes where the previous match ended.
Replace(regex, s, p) ==
  LET hits == {q \in p..(Len(s) - 1) : MatchAt(regex, s, q).end # -1}
  IN  IF hits = {} THEN [text |-> slice(s, p, Len(s)), caps |-> << >>]
      ELSE LET q    == CHOOSE x \in hits : \A y \in hits : x <= y
               m    == MatchAt(regex, s, q)
               rest == Replace(regex, s, m.end)
           IN  [text |-> slice(s, p, q) \o rest.text,
                caps |-> <<m.caps>> \o rest.caps]

----------------------------------------------------------------------------
(* The input texts.                                                        *)

RECURSIVE Concat(_, _)
\* the fragments k, k + 1, ... of a sequence of fragments laid end to end
Concat(frags, k) ==
  IF k > Len(frags) THEN << >> ELSE frags[k] \o Concat(frags, k + 1)

\* a text made of at most n of the fragments
IsInput(text, fragments, n) ==
  \E k \in 0..n : \E frags \in [1..k -> fragments] : text = Concat(frags, 1)

\* scanner inputs: every character the matchers tell apart, and the two
\* block-comment tokens
ScanFragments ==
  {<<"#">>, <<"\"">>, <<"'">>, <<"\\">>, <<"\n">>, <<" ">>, <<"a">>, <<"/">>,
   <<"*">>, <<"/", "*">>, <<"*", "/">>}

\* extraction inputs: directives, declarations and the tokens that open regions
ExtractFragments ==
  {<<"#", "i", "n", "c", "l", "u", "d", "e", " ", "<", "a", ">", "\n">>,
   <<"#", "i", "n", "c", "l", "u", "d", "e", " ", "<", "b", ">", "\n">>,
   <<"u", "s", "i", "n", "g", " ">>,
   <<"n", "a", "m", "e", "s", "p", "a", "c", "e", " ", "x", ";">>,
   <<"t", "y", "p", "e", "d", "e", "f", " ", "i", "n", "t", " ", "a", ";">>,
   <<"u", "s", "i", "n", "g", " ", "n", "a", "m", "e", "s", "p", "a", "c", "e", " ", "x", ";">>,
   <<"#">>, <<"\"">>, <<"/", "*">>, <<"*", "/">>, <<"/", "/">>, <<"\n">>}

\* macro inputs: continuations, and the tokens that open the other regions
MacroFragments ==
  {<<"#">>, <<"\\">>, <<" ">>, <<"\n">>, <<"a">>, <<"\"">>, <<"/", "*">>,
   <<"*", "/">>, <<"/", "/">>}

----------------------------------------------------------------------------
(* partition.                                                              *)

\* pc: "scan" inside the for loop, "dependencies" / "namespaces" / "typedefs"
\* before each extraction pass, "assemble" before the return, "done" after it,
\* "fatal_literal" / "fatal_block_comment" after process.exit(-1)

Start(fragments, n) ==
  /\ IsInput(content, fragments, n)
  /\ pc = "scan"
  /\ i = 0
  /\ lastIndex = 0
  /\ macros = << >>
  /\ sources = << >>
  /\ comments = << >>
  /\ literals = << >>
  /\ dependencies = << >>
  /\ namespaces = << >>
  /\ typedefs = [alias \in {} |-> << >>]
  /\ result = "none"

Init == Start(ScanFragments, MaxFrags)

InitExtract == Start(ExtractFragments, MaxParts)

InitMacro == Start(MacroFragments, MaxMacroFrags)

AtMacro == startsWith(content, macroMark, i)

AtLiteral == \E quote \in quoteMark : startsWith(content, quote, i)

AtLineComment == startsWith(content, inlineCommentMark, i)

AtBlockComment == startsWith(content, blockCommentMark[1], i)

\* lastIndex = sourcePiece.start + sourcePiece.content.length
PastPiece(sourcePiece) == sourcePiece.start + Len(sourcePiece.content)

\* a cursor that goes back to the start of the piece it has just matched
ResumeAtStart(sourcePiece) == (sourcePiece.start - 1) + 1

\* i = lastIndex - 1, then the loop's ++i
Resume(sourcePiece) == (PastPiece(sourcePiece) - 1) + 1

\* sources.push(...); lastIndex = ...; i = lastIndex - 1; ++i
Close(sourcePiece) ==
  /\ sources' = Append(sources, [start   |-> lastIndex,
                                 content |-> slice(content, lastIndex, sourcePiece.start)])
  /\ lastIndex' = PastPiece(sourcePiece)
  /\ i' = Resume(sourcePiece)

ScanMacro ==
  /\ pc = "scan" /\ i < Len(content)
  /\ AtMacro
  /\ LET sourcePiece == matchMacro(content, i)
     IN  /\ macros' = Append(macros, sourcePiece)
         /\ Close(sourcePiece)
  /\ UNCHANGED <<content, pc, comments, literals, dependencies, namespaces,
                 typedefs, result>>

ScanLiteral ==
  /\ pc = "scan" /\ i < Len(content)
  /\ ~AtMacro /\ AtLiteral
  /\ ~LiteralUnclosed(content, i)
  /\ LET sourcePiece == matchLiteral(content, i)
     IN  /\ literals' = Append(literals, sourcePiece)
         /\ Close(sourcePiece)
  /\ UNCHANGED <<content, pc, macros, comments, dependencies, namespaces,
                 typedefs, result>>

FatalLiteral ==
  /\ pc = "scan" /\ i < Len(content)
  /\ ~AtMacro /\ AtLiteral
  /\ LiteralUnclosed(content, i)
  /\ pc' = "fatal_literal"
  /\ UNCHANGED <<content, i, lastIndex, macros, sources, comments, literals,
                 dependencies, namespaces, typedefs, result>>

ScanLineComment ==
  /\ pc = "scan" /\ i < Len(content)
  /\ ~AtMacro /\ ~AtLiteral /\ AtLineComment
  /\ LET sourcePiece == matchLineComment(content, i, inlineCommentMark)
     IN  /\ comments' = Append(comments, sourcePiece)
         /\ Close(sourcePiece)
  /\ UNCHANGED <<content, pc, macros, literals, dependencies, namespaces,
                 typedefs, result>>

ScanBlockComment ==
  /\ pc = "scan" /\ i < Len(content)
  /\ ~AtMacro /\ ~AtLiteral /\ ~AtLineComment /\ AtBlockComment
  /\ ~BlockCommentUnclosed(content, i, blockCommentMark)
  /\ LET sourcePiece == matchBlockComment(content, i, blockCommentMark)
     IN  /\ comments' = Append(comments, sourcePiece)
         /\ Close(sourcePiece)
  /\ UNCHANGED <<content, pc, macros, literals, dependencies, namespaces,
                 typedefs, result>>

FatalBlockComment ==
  /\ pc = "scan" /\ i < Len(content)
  /\ ~AtMacro /\ ~AtLiteral /\ ~AtLineComment /\ AtBlockComment
  /\ BlockCommentUnclosed(content, i, blockCommentMark)
  /\ pc' = "fatal_block_comment"
  /\ UNCHANGED <<content, i, lastIndex, macros, sources, comments, literals,
                 dependencies, namespaces, typedefs, result>>

\* if (sourcePiece == null) continue
ScanPlain ==
  /\ pc = "scan" /\ i < Len(content)
  /\ ~AtMacro /\ ~AtLiteral /\ ~AtLineComment /\ ~AtBlockComment
  /\ i' = i + 1
  /\ UNCHANGED <<content, pc, lastIndex, macros, sources, comments, literals,
                 dependencies, namespaces, typedefs, result>>

\* the loop is left: sources.push({ start: lastIndex, content: content.slice(lastIndex) })
ScanEnd ==
  /\ pc = "scan" /\ i >= Len(content)
  /\ sources' = Append(sources, [start   |-> lastIndex,
                                 content |-> slice(content, lastIndex, Len(content))])
  /\ pc' = "dependencies"
  /\ UNCHANGED <<content, i, lastIndex, macros, comments, literals,
                 dependencies, namespaces, typedefs, result>>

\* pieces.forEach(piece => piece.content = piece.content.replace(regex, ...)):
\* the pieces with the matches deleted
Stripped(regex, pieces) ==
  [k \in DOMAIN pieces |->
     [start |-> pieces[k].start, content |-> Replace(regex, pieces[k].content, 0).text]]

RECURSIVE Captured(_, _, _)
\* the captures of the matches in the pieces k, k + 1, ... in the order of the calls
Captured(regex, pieces, k) ==
  IF k > Len(pieces) THEN << >>
  ELSE Replace(regex, pieces[k].content, 0).caps \o Captured(regex, pieces, k + 1)

ExtractDependencies ==
  /\ pc = "dependencies"
  /\ macros' = Stripped("import", macros)
  /\ dependencies' =
       dependencies \o [k \in DOMAIN Captured("import", macros, 1) |->
                          Captured("import", macros, 1)[k][1]]
  /\ pc' = "namespaces"
  /\ UNCHANGED <<content, i, lastIndex, sources, comments, literals, namespaces,
                 typedefs, result>>

ExtractNamespaces ==
  /\ pc = "namespaces"
  /\ sources' = Stripped("namespace", sources)
  /\ namespaces' =
       namespaces \o [k \in DOMAIN Captured("namespace", sources, 1) |->
                        Captured("namespace", sources, 1)[k][1]]
  /\ pc' = "typedefs"
  /\ UNCHANGED <<content, i, lastIndex, macros, comments, literals, dependencies,
                 typedefs, result>>

\* Map.prototype.set
MapSet(map, key, value) ==
  [x \in DOMAIN map \cup {key} |-> IF x = key THEN value ELSE map[x]]

RECURSIVE SetAll(_, _, _)
\* typedefs.set(alias, raw) for the captures k, k + 1, ... in order
SetAll(map, caps, k) ==
  IF k > Len(caps) THEN map
  ELSE SetAll(MapSet(map, caps[k][2], caps[k][1]), caps, k + 1)

ExtractTypedefs ==
  /\ pc = "typedefs"
  /\ sources' = Stripped("typedef", sources)
  /\ typedefs' = SetAll(typedefs, Captured("typedef", sources, 1), 1)
  /\ pc' = "assemble"
  /\ UNCHANGED <<content, i, lastIndex, macros, comments, literals, dependencies,
                 namespaces, result>>

\* const filterNotEmptyPiece = (sourcePiece) => sourcePiece.content.length > 0
filterNotEmptyPiece(sourcePiece) == Len(sourcePiece.content) > 0

\* d => d.length > 0
NotEmptyString(d) == Len(d) > 0

RECURSIVE FilterPieces(_, _)
\* pieces.filter(filterNotEmptyPiece): the pieces k, k + 1, ... it accepts, in order
FilterPieces(pieces, k) ==
  IF k > Len(pieces) THEN << >>
  ELSE (IF filterNotEmptyPiece(pieces[k]) THEN <<pieces[k]>> ELSE << >>)
         \o FilterPieces(pieces, k + 1)

RECURSIVE FilterStrings(_, _)
\* list.filter(d => d.length > 0): the strings k, k + 1, ... it accepts, in order
FilterStrings(list, k) ==
  IF k > Len(list) THEN << >>
  ELSE (IF NotEmptyString(list[k]) THEN <<list[k]>> ELSE << >>)
         \o FilterStrings(list, k + 1)

RECURSIVE SetOf(_, _, _)
\* [...new Set(list)]: the entries k, k + 1, ... not in `seen`, each once, in the
\* order of their first occurrence
SetOf(list, seen, k) ==
  IF k > Len(list) THEN << >>
  ELSE IF list[k] \in seen THEN SetOf(list, seen, k + 1)
  ELSE <<list[k]>> \o SetOf(list, seen \cup {list[k]}, k + 1)

\* the list spread without the Set
KeepDuplicates(list) == list

\* [ ...new Set(dependencies)]
UniqueDependencies(list) == SetOf(list, {}, 1)

Assemble ==
  /\ pc = "assemble"
  /\ result' = [macros       |-> macros,
                sources      |-> FilterPieces(sources, 1),
                comments     |-> FilterPieces(comments, 1),
                literals     |-> FilterPieces(literals, 1),
                dependencies |-> FilterStrings(UniqueDependencies(dependencies), 1),
                namespaces   |-> FilterStrings(namespaces, 1),
                typedefs     |-> typedefs]
  /\ pc' = "done"
  /\ UNCHANGED <<content, i, lastIndex, macros, sources, comments, literals,
                 dependencies, namespaces, typedefs>>

Next ==
  \/ ScanMacro
  \/ ScanLiteral
  \/ FatalLiteral
  \/ ScanLineComment
  \/ ScanBlockComment
  \/ FatalBlockComment
  \/ ScanPlain
  \/ ScanEnd
  \/ ExtractDependencies
  \/ ExtractNamespaces
  \/ ExtractTypedefs
  \/ Assemble

Spec == Init /\ [][Next]_vars

SpecExtract == InitExtract /\ [][Next]_vars

SpecMacro == InitMacro /\ [][Next]_vars

----------------------------------------------------------------------------
(* What the claims speak of, stated from the text alone.                   *)

\* the pattern matches somewhere in the text
HasMatch(regex, s) == \E p \in 0..(Len(s) - 1) : MatchAt(regex, s, p).end # -1

\* the end of the maximal run of tab/space that starts at offset p
BlankRunEnd(s, p) ==
  CHOOSE e \in p..Len(s) :
    /\ \A k \in p..(e - 1) : IsBlank(charAt(s, k))
    /\ e = Len(s) \/ ~IsBlank(charAt(s, e))

\* the end of the maximal run of newlines that starts at offset p
NewlineRunEnd(s, p) ==
  CHOOSE e \in p..Len(s) :
    /\ \A k \in p..(e - 1) : charAt(s, k) = "\n"
    /\ e = Len(s) \/ charAt(s, e) # "\n"

\* the start of the maximal run of tab/space that ends directly before offset p
BlankRunStart(s, p) ==
  CHOOSE b \in 0..p :
    /\ \A k \in b..(p - 1) : IsBlank(charAt(s, k))
    /\ b = 0 \/ ~IsBlank(charAt(s, b - 1))

\* the number of backslashes directly before offset k, none of them before `low`
BackslashesBefore(s, k, low) ==
  Cardinality({b \in low..(k - 1) : \A j \in b..(k - 1) : charAt(s, j) = "\\"})

\* the quotes that close the literal opened at offset at: the same character,
\* not skipped by a backslash
ClosingQuotes(s, at) ==
  {j \in (at + 1)..(Len(s) - 1) :
     /\ charAt(s, j) = charAt(s, at)
     /\ BackslashesBefore(s, j, at + 1) % 2 = 0}

Least(set) == CHOOSE x \in set : \A y \in set : x <= y

\* the newlines after offset at that a continuation escapes: a backslash directly
\* followed by a newline escapes the newlines of the whitespace run after it
EscapedNewlines(s, at) ==
  {n \in (at + 1)..(Len(s) - 1) :
     /\ charAt(s, n) = "\n"
     /\ \E b \in (at + 1)..(n - 1) :
          /\ charAt(s, b) = "\\"
          /\ charAt(s, b + 1) = "\n"
          /\ \A k \in (b + 1)..n : IsSpace(charAt(s, k))}

\* the offset after the macro introduced at offset at: after its first newline
\* that is not escaped, or the end of the text
MacroRegionEnd(s, at) ==
  LET ends == {n \in (at + 1)..(Len(s) - 1) :
                 charAt(s, n) = "\n" /\ n \notin EscapedNewlines(s, at)}
  IN  IF ends = {} THEN Len(s) ELSE Least(ends) + 1

\* the offsets of a closing token after the opening token at offset at
ClosingTokens(s, at) ==
  {c \in (at + Len(blockCommentMark[1]))..(Len(s) - 1) :
     startsWith(s, blockCommentMark[2], c)}

\* the offset after the block comment opened at offset at, closed at offset c:
\* after the closing token, the tab/space after it and the newlines after those
CommentRegionEnd(s, c) ==
  NewlineRunEnd(s, BlankRunEnd(s, c + Len(blockCommentMark[2])))

\* the cursor is on the introducer of a region of the kind
OnMacro == pc = "scan" /\ i < Len(content) /\ AtMacro

OnLiteral == pc = "scan" /\ i < Len(content) /\ ~AtMacro /\ AtLiteral

OnBlockComment ==
  pc = "scan" /\ i < Len(content) /\ ~AtMacro /\ ~AtLiteral /\ ~AtLineComment
  /\ AtBlockComment

\* every region and plain-code run pushed so far
AllPieces == macros \o literals \o comments \o sources

Covers(piece, off) == piece.start <= off /\ off < piece.start + Len(piece.content)

RECURSIVE LaidFrom(_)
\* the pieces that start at offset off or later, laid end to end by start
LaidFrom(off) ==
  IF off > Len(content) THEN << >>
  ELSE LET here == SelectSeq(AllPieces, LAMBDA piece : piece.start = off)
           RECURSIVE Join(_)
           Join(k) == IF k > Len(here) THEN << >> ELSE here[k].content \o Join(k + 1)
       IN  Join(1) \o LaidFrom(off + 1)

NoDuplicates(list) == \A j, k \in DOMAIN list : j # k => list[j] # list[k]

\* the list with every entry removed that occurred before
FirstOccurrences(list) ==
  LET first == {k \in DOMAIN list : \A j \in 1..(k - 1) : list[j] # list[k]}
      nth(n) == CHOOSE k \in first : Cardinality({j \in first : j <= k}) = n
  IN  [n \in 1..Cardinality(first) |-> list[nth(n)]]

\* the include targets of a text, by offset of their directive
TargetsIn(text) ==
  LET at == {p \in 0..(Len(text) - 1) : getImportRegex(text, p).end # -1}
      nth(n) == CHOOSE p \in at : Cardinality({q \in at : q <= p}) = n
  IN  [n \in 1..Cardinality(at) |-> getImportRegex(text, nth(n)).caps[1]]

RECURSIVE MacroTargets(_)
\* the include targets of the macro regions k, k + 1, ... as they were matched
MacroTargets(k) ==
  IF k > Len(macros) THEN << >>
  ELSE LET at == BlankRunEnd(content, macros[k].start)
       IN  TargetsIn(matchMacro(content, at).content) \o MacroTargets(k + 1)

\* what is left to do: the passes after the scan, and in the scan the text not
\* yet passed by the cursor
Measure ==
  CASE pc = "scan"         -> 5 + (Len(content) - i)
    [] pc = "dependencies" -> 4
    [] pc = "namespaces"   -> 3
    [] pc = "typedefs"     -> 2
    [] pc = "assemble"     -> 1
    [] OTHER               -> 0

----------------------------------------------------------------------------
(* The claims.                                                             *)

\* C1: when the scan has ended without abort, the regions of macros, literals and
\* comments and the plain-code runs of sources, as pushed, hold every offset of
\* the text exactly once, and laid end to end by start they are the text.
C1_PiecesTileTheText ==
  pc = "dependencies" =>
    /\ \A off \in 0..(Len(content) - 1) :
         Cardinality({k \in DOMAIN AllPieces : Covers(AllPieces[k], off)}) = 1
    /\ LaidFrom(0) = content

\* C2: a literal opened at offset i is the text from i through the first quote of
\* the same character that no backslash skips; when there is none the scan ends
\* in the fatal outcome of the unterminated literal, no SourceItem is returned and
\* nothing follows.
C2_LiteralRegion ==
  [][/\ OnLiteral =>
          IF ClosingQuotes(content, i) # {}
          THEN /\ pc' = "scan"
               /\ literals' = Append(literals,
                    [start   |-> i,
                     content |-> slice(content, i, Least(ClosingQuotes(content, i)) + 1)])
          ELSE /\ pc' = "fatal_literal"
               /\ literals' = literals
               /\ result' = "none"
     /\ pc # "fatal_literal"]_vars

\* C2 witness: a literal that holds an escaped quote has been matched, whole
C2_EscapedQuoteInLiteral ==
  \E k \in DOMAIN literals :
    /\ Len(literals[k].content) = 4
    /\ literals[k].content[2] = "\\"
    /\ literals[k].content[3] = literals[k].content[1]

\* C3: no list of the returned SourceItem holds a piece with empty content.
C3_NoEmptyPiece ==
  pc = "done" =>
    /\ \A k \in DOMAIN result.macros   : result.macros[k].content # << >>
    /\ \A k \in DOMAIN result.comments : result.comments[k].content # << >>
    /\ \A k \in DOMAIN result.literals : result.literals[k].content # << >>
    /\ \A k \in DOMAIN result.sources  : result.sources[k].content # << >>

\* C4: the returned namespaces hold no empty string and no name twice.
C4_NamespacesUnique ==
  pc = "done" =>
    /\ NoDuplicates(result.namespaces)
    /\ \A k \in DOMAIN result.namespaces : result.namespaces[k] # << >>

\* C5: the returned dependencies are the include targets of the macro regions in
\* document order, each kept at its first occurrence only; none is empty.
C5_Dependencies ==
  pc = "done" =>
    /\ result.dependencies = FirstOccurrences(MacroTargets(1))
    /\ NoDuplicates(result.dependencies)
    /\ \A k \in DOMAIN result.dependencies : result.dependencies[k] # << >>

\* C5 witness: a document with include a, include b, include a has been returned
C5_RepeatedInclude ==
  /\ pc = "done"
  /\ Len(dependencies) = 3
  /\ dependencies[1] = dependencies[3]
  /\ Len(result.dependencies) = 2

\* C6: the region of a macro introduced at offset i starts at the tab/space run
\* before i and ends with the first newline after i that no backslash-newline
\* continuation escapes, or at the end of the text.
C6_MacroRegion ==
  [][OnMacro =>
       macros' = Append(macros,
         [start   |-> BlankRunStart(content, i),
          content |-> slice(content, BlankRunStart(content, i),
                            MacroRegionEnd(content, i))])]_vars

\* C7: the region of a matched block comment opened at offset i is the tab/space
\* run before i, the comment through its closing token, the tab/space after it
\* and the newlines after those; the next plain-code run starts right after.
C7_BlockCommentRegion ==
  [][(OnBlockComment /\ pc' = "scan") =>
       /\ ClosingTokens(content, i) # {}
       /\ LET end == CommentRegionEnd(content, Least(ClosingTokens(content, i)))
          IN  /\ comments' = Append(comments,
                   [start   |-> BlankRunStart(content, i),
                    content |-> slice(content, BlankRunStart(content, i), end)])
              /\ lastIndex' = end]_vars

\* C8: in the returned SourceItem the dependency pattern matches in no macro, and
\* the namespace and typedef patterns match in no plain-code run.
C8_ExtractionIdempotent ==
  pc = "done" =>
    /\ \A k \in DOMAIN result.macros : ~HasMatch("import", result.macros[k].content)
    /\ \A k \in DOMAIN result.sources :
         /\ ~HasMatch("namespace", result.sources[k].content)
         /\ ~HasMatch("typedef", result.sources[k].content)

\* C9: a block comment opened at offset i is matched exactly when a closing token
\* lies at an offset from i + length(opening token) on; otherwise the scan ends in
\* the fatal outcome of the unterminated block comment and returns no SourceItem.
C9_BlockCommentClosed ==
  [][OnBlockComment =>
       IF ClosingTokens(content, i) # {}
       THEN pc' = "scan"
       ELSE pc' = "fatal_block_comment" /\ result' = "none"]_vars

\* C10: the scan terminates: every step lessens what is left to do; the loops of
\* the macro and literal matchers advance `end` on each iteration; a match puts
\* lastIndex after the cursor and after its former value, and the cursor never
\* moves backwards.
C10_ScanProgress ==
  [][/\ Measure' < Measure /\ Measure' >= 0
     /\ \A end \in 0..(Len(content) - 1) :
          /\ MacroIterate(content, end) > end
          /\ LiteralIterate(content, end) > end
     /\ (pc = "scan" /\ pc' = "scan") => i' > i /\ lastIndex' >= lastIndex
     /\ (pc = "scan" /\ pc' = "scan" /\ sources' # sources) =>
          /\ lastIndex' > i
          /\ lastIndex' > lastIndex
          /\ i' = lastIndex']_vars

\* C10 witness: a scan that matched an indented macro with a backslash in it has
\* returned
C10_IndentedMacroWithBackslash ==
  /\ pc = "done"
  /\ \E k \in DOMAIN macros :
       /\ IsBlank(charAt(content, macros[k].start))
       /\ \E off \in DOMAIN macros[k].content : macros[k].content[off] = "\\"

====
